---- MODULE Spec2Model ----
(***************************************************************************)
(* Retail pricing ETL: the batch pipeline of etl_pipeline.py (load_data,   *)
(* clean_transform, compute_kpis, save_outputs, main) and the query        *)
(* function of cloud_function/main.py (load_kpis_from_gcs, retail_etl_api).*)
(*                                                                         *)
(* Text (column names, platform names, category names, query arguments)    *)
(* is a sequence of one-character strings, so that the substring test,     *)
(* replace() and lower() of the source are computed, not assumed.          *)
(* A cell is a record [k, n, d]: k = "num" is the rational n/d (d > 0, in  *)
(* lowest terms), k = "inf" is +inf (n = 1) or -inf (n = -1), k = "nan" is *)
(* NaN, k = "text" is a string that does not parse as a number, k = "empty"*)
(* is an empty CSV field.  Arithmetic is exact: binary rounding of the     *)
(* float64 mean is not modelled.  A frame keeps its column names and, per  *)
(* row, the index label and the cells in column order.  The columns whose  *)
(* values no property reads (Style Id, Catalog, Category, Weight) hold a   *)
(* fixed text; the Size column, the grouped tables and the timestamp of    *)
(* the KPI dictionary are left out.                                        *)
(***************************************************************************)
EXTENDS Integers, Sequences, FiniteSets, TLC

VARIABLES
    pc,           \* position of main(): start, loaded, transformed, aggregated, done, failed
    file_exists,  \* os.path.exists(input_path)
    csv,          \* the input file: [columns, rows]
    df,           \* the frame load_data returned
    df_clean,     \* the frame clean_transform returned
    kpis,         \* the dictionary compute_kpis returned
    written,      \* the files save_outputs has written in output_dir
    error,        \* the exception that ended main(), or "none"
    blob,         \* the object at gs://BUCKET_NAME/KPI_FILE_PATH as the function sees it
    request,      \* the HTTP request given to retail_etl_api
    response      \* what retail_etl_api returned, or NoResponse

vars == <<pc, file_exists, csv, df, df_clean, kpis, written, error, blob, request, response>>

etl_vars == <<pc, file_exists, csv, df, df_clean, kpis, written, error>>

api_vars == <<blob, request, response>>

None == [k |-> "none"]

----------------------------------------------------------------------------
(* Text *)

Range(s) == {s[i] : i \in 1..Len(s)}

Contains(s, sub) ==
    \E i \in 1..(Len(s) - Len(sub) + 1) : SubSeq(s, i, i + Len(sub) - 1) = sub

RECURSIVE replace(_, _, _)
replace(s, old, new) ==
    IF Len(s) < Len(old) THEN s
    ELSE IF SubSeq(s, 1, Len(old)) = old
         THEN new \o replace(SubSeq(s, Len(old) + 1, Len(s)), old, new)
         ELSE <<s[1]>> \o replace(Tail(s), old, new)

UpperCase == <<"A","B","C","D","E","F","G","H","I","J","K","L","M",
               "N","O","P","Q","R","S","T","U","V","W","X","Y","Z">>

LowerCase == <<"a","b","c","d","e","f","g","h","i","j","k","l","m",
               "n","o","p","q","r","s","t","u","v","w","x","y","z">>

lower(s) ==
    [i \in 1..Len(s) |->
        IF \E j \in 1..Len(UpperCase) : UpperCase[j] = s[i]
        THEN LowerCase[CHOOSE j \in 1..Len(UpperCase) : UpperCase[j] = s[i]]
        ELSE s[i]]

SkuCol == <<"S","k","u">>

StyleIdCol == <<"S","t","y","l","e"," ","I","d">>

CatalogCol == <<"C","a","t","a","l","o","g">>

CategoryCol == <<"C","a","t","e","g","o","r","y">>

WeightCol == <<"W","e","i","g","h","t">>

TPCol == <<"T","P">>

MRPOldCol == <<"M","R","P"," ","O","l","d">>

FinalMRPOldCol == <<"F","i","n","a","l"," ","M","R","P"," ","O","l","d">>

AMRPCol == <<"A"," ","M","R","P">>

BMRPCol == <<"B"," ","M","R","P">>

AmFbMRPCol == <<"A","m"," ","F","b"," ","M","R","P">>

RequiredColumns == {SkuCol, StyleIdCol, CatalogCol, CategoryCol, WeightCol, TPCol}

----------------------------------------------------------------------------
(* Numbers *)

NaN == [k |-> "nan", n |-> 0, d |-> 1]

PosInf == [k |-> "inf", n |-> 1, d |-> 1]

NegInf == [k |-> "inf", n |-> -1, d |-> 1]

\* a string that is no number; n tells one string from another
Str(i) == [k |-> "text", n |-> i, d |-> 1]

Text == Str(0)

Empty == [k |-> "empty", n |-> 0, d |-> 1]

Abs(i) == IF i < 0 THEN -i ELSE i

RECURSIVE GCD(_, _)
GCD(a, b) == IF b = 0 THEN a ELSE GCD(b, a % b)

Frac(n, d) ==
    LET g == IF n = 0 THEN d ELSE GCD(Abs(n), d)
    IN  [k |-> "num", n |-> n \div g, d |-> d \div g]

Num(i) == Frac(i, 1)

isnan(x) == x.k = "nan"

notna(x) == ~isnan(x)

\* IEEE comparison: every comparison with NaN is false.
Lt(a, b) ==
    /\ notna(a)
    /\ notna(b)
    /\ IF a = PosInf \/ b = NegInf THEN FALSE
       ELSE IF a = NegInf \/ b = PosInf THEN TRUE
       ELSE a.n * b.d < b.n * a.d

Eq(a, b) == notna(a) /\ notna(b) /\ a = b

Le(a, b) == Lt(a, b) \/ Eq(a, b)

Add(a, b) ==
    IF isnan(a) \/ isnan(b) THEN NaN
    ELSE IF a.k = "inf" /\ b.k = "inf" THEN (IF a = b THEN a ELSE NaN)
    ELSE IF a.k = "inf" THEN a
    ELSE IF b.k = "inf" THEN b
    ELSE Frac(a.n * b.d + b.n * a.d, a.d * b.d)

Neg(a) == IF a.k = "nan" THEN NaN ELSE [a EXCEPT !.n = -a.n]

Sub(a, b) == Add(a, Neg(b))

\* x / c for a count c > 0
DivCount(x, c) == IF x.k = "num" THEN Frac(x.n, x.d * c) ELSE x

----------------------------------------------------------------------------
(* etl_pipeline.py *)

Frame(columns, rows) == [columns |-> columns, rows |-> rows]

\* the cell of column c in a row whose cells stand in the order of columns
At(columns, cells, c) == cells[CHOOSE i \in 1..Len(columns) : columns[i] = c]

NoFrame == Frame(<<>>, <<>>)

Ok(v) == [ok |-> TRUE, error |-> "none", value |-> v]

Raise(e) == [ok |-> FALSE, error |-> e, value |-> None]

\* pd.read_csv: an empty field is read as NaN; row i gets index label i - 1
read_csv(file) ==
    Frame(file.columns,
          [i \in 1..Len(file.rows) |->
              [idx |-> i - 1,
               cells |-> [j \in 1..Len(file.rows[i]) |->
                             IF file.rows[i][j].k = "empty" THEN NaN
                             ELSE file.rows[i][j]]]])

load_data(exists, file) ==
    IF ~exists THEN Raise("FileNotFoundError") ELSE Ok(read_csv(file))

\* pd.to_numeric(errors='coerce')
to_numeric(x) == IF x.k \in {"text", "empty"} THEN NaN ELSE x

\* a variant that forgets the two excluded columns
IsPlatformCol_AnyMRP(col) == Contains(col, <<"M","R","P">>)

IsPlatformCol(col) ==
    /\ Contains(col, <<"M","R","P">>)
    /\ col \notin {MRPOldCol, FinalMRPOldCol}

platform_cols(columns) == SelectSeq(columns, IsPlatformCol)

platform_name(col) ==
    replace(lower(replace(col, <<" ","M","R","P">>, <<>>)), <<" ">>, <<"_">>)

RECURSIVE nanmin(_)
nanmin(vs) ==
    IF vs = <<>> THEN NaN
    ELSE LET h == Head(vs)
             rest == nanmin(Tail(vs))
         IN  IF isnan(h) THEN rest
             ELSE IF isnan(rest) THEN h
             ELSE IF Lt(rest, h) THEN rest ELSE h

RECURSIVE nanmax(_)
nanmax(vs) ==
    IF vs = <<>> THEN NaN
    ELSE LET h == Head(vs)
             rest == nanmax(Tail(vs))
         IN  IF isnan(h) THEN rest
             ELSE IF isnan(rest) THEN h
             ELSE IF Lt(h, rest) THEN rest ELSE h

RECURSIVE SumSeq(_)
SumSeq(vs) == IF vs = <<>> THEN Num(0) ELSE Add(Head(vs), SumSeq(Tail(vs)))

nanmean(vs) ==
    LET present == SelectSeq(vs, notna)
    IN  IF present = <<>> THEN NaN
        ELSE DivCount(SumSeq(present), Len(present))

\* a variant in which a later item of equal price replaces the earlier one
RECURSIVE PyMin_LastWins(_, _)
PyMin_LastWins(best, items) ==
    IF items = <<>> THEN best
    ELSE IF Le(Head(items)[2], best[2]) THEN PyMin_LastWins(Head(items), Tail(items))
    ELSE PyMin_LastWins(best, Tail(items))

\* min(prices.items(), key=lambda x: x[1]): the first item no later item is below
RECURSIVE PyMin(_, _)
PyMin(best, items) ==
    IF items = <<>> THEN best
    ELSE IF Lt(Head(items)[2], best[2]) THEN PyMin(Head(items), Tail(items))
    ELSE PyMin(best, Tail(items))

cheapest_platform(columns, cells, pcols) ==
    LET present(c) == notna(At(columns, cells, c))
        cols == SelectSeq(pcols, present)
        prices == [i \in 1..Len(cols) |-> <<cols[i], At(columns, cells, cols[i])>>]
    IN  IF prices # <<>>
        THEN [k |-> "str", s |-> platform_name(PyMin(Head(prices), Tail(prices))[1])]
        ELSE None

\* a variant that keeps the last line of each SKU (keep='last')
drop_duplicates_last(columns, rows) ==
    LET sku(i) == At(columns, rows[i].cells, SkuCol)
        last(i) == \A j \in (i + 1)..Len(rows) : sku(j) # sku(i)
        RECURSIVE pick(_)
        pick(i) == IF i > Len(rows) THEN <<>>
                   ELSE IF last(i) THEN <<rows[i]>> \o pick(i + 1)
                   ELSE pick(i + 1)
    IN  pick(1)

\* df.drop_duplicates(subset=['Sku'], keep='first')
drop_duplicates(columns, rows) ==
    LET sku(i) == At(columns, rows[i].cells, SkuCol)
        first(i) == \A j \in 1..(i - 1) : sku(j) # sku(i)
        keep == {i \in 1..Len(rows) : first(i)}
        RECURSIVE pick(_)
        pick(i) == IF i > Len(rows) THEN <<>>
                   ELSE IF i \in keep THEN <<rows[i]>> \o pick(i + 1)
                   ELSE pick(i + 1)
    IN  pick(1)

\* lines 56-59: TP and the platform columns made numeric
coerce(columns, rows, pcols) ==
    [i \in 1..Len(rows) |->
        [rows[i] EXCEPT !.cells =
            [j \in 1..Len(columns) |->
                IF columns[j] = TPCol \/ columns[j] \in Range(pcols)
                THEN to_numeric(rows[i].cells[j])
                ELSE rows[i].cells[j]]]]

\* line 62: rows with at least one platform price
has_price(columns, rows, pcols) ==
    LET any(r) == \E c \in Range(pcols) : notna(At(columns, r.cells, c))
    IN  SelectSeq(rows, any)

\* a variant that tests TP >= 0
valid_tp_nonneg(columns, rows) ==
    LET nonneg(r) == Le(Num(0), At(columns, r.cells, TPCol))
    IN  SelectSeq(rows, nonneg)

\* line 65: df_clean['TP'] > 0
valid_tp(columns, rows) ==
    LET positive(r) == Lt(Num(0), At(columns, r.cells, TPCol))
    IN  SelectSeq(rows, positive)

\* lines 74-93: the derived price columns
price_metrics(columns, rows, pcols) ==
    [i \in 1..Len(rows) |->
        LET r == rows[i]
            prices == [j \in 1..Len(pcols) |-> At(columns, r.cells, pcols[j])]
            lo == nanmin(prices)
            hi == nanmax(prices)
        IN  [idx |-> r.idx,
             cells |-> r.cells,
             min_price |-> lo,
             max_price |-> hi,
             avg_price |-> nanmean(prices),
             price_range |-> Sub(hi, lo),
             cheapest_platform |-> cheapest_platform(columns, r.cells, pcols),
             cheapest_price |-> lo]]

clean_transform(d) ==
    LET has(c) == c \in Range(d.columns)
        pcols == platform_cols(d.columns)
        numeric == coerce(d.columns, d.rows, pcols)
        priced == has_price(d.columns, numeric, pcols)
        valid == valid_tp(d.columns, priced)
    IN  IF ~has(SkuCol) \/ ~has(WeightCol) \/ ~has(TPCol) THEN Raise("KeyError")
        \* np.nanmin(axis=1) of the 1-d array built from no platform column
        ELSE IF pcols = <<>> THEN Raise("AxisError")
        ELSE Ok(Frame(d.columns,
                      drop_duplicates(d.columns, price_metrics(d.columns, valid, pcols))))

TopN == 20

\* a variant that takes the first n rows as they stand (head(n))
nlargest_head(n, rows) == SubSeq(rows, 1, IF n < Len(rows) THEN n ELSE Len(rows))

\* df.nlargest(n, 'price_range'), keep='first': the n rows of largest value, largest
\* first, equal values in frame order; rows whose value is NaN come after the others
nlargest(n, rows) ==
    LET N == Len(rows)
        v(i) == rows[i].price_range
        valued == {i \in 1..N : notna(v(i))}
        rank(i) ==
            IF i \in valued
            THEN Cardinality({j \in valued : Lt(v(i), v(j)) \/ (j < i /\ v(j) = v(i))}) + 1
            ELSE Cardinality(valued) + Cardinality({j \in 1..(i - 1) : j \notin valued}) + 1
        at(p) == CHOOSE i \in 1..N : rank(i) = p
    IN  [p \in 1..(IF n < N THEN n ELSE N) |-> rows[at(p)]]

\* the columns kept in top_variation_products (lines 174-176)
project(columns, r) ==
    [Sku |-> At(columns, r.cells, SkuCol),
     min_price |-> r.min_price,
     max_price |-> r.max_price,
     price_range |-> r.price_range,
     cheapest_platform |-> r.cheapest_platform]

\* lines 148-160: one entry per platform column that has a value
platform_stats(columns, rows, pcols) ==
    LET data(c) == SelectSeq([i \in 1..Len(rows) |-> At(columns, rows[i].cells, c)], notna)
        with_data == {c \in Range(pcols) : Len(data(c)) > 0}
    IN  [name \in {platform_name(c) : c \in with_data} |->
            LET c == CHOOSE x \in with_data : platform_name(x) = name
            IN  [products_available |-> Len(data(c)),
                 min_price |-> nanmin(data(c)),
                 max_price |-> nanmax(data(c)),
                 total |-> Len(rows)]]

\* the dictionary compute_kpis returns (lines 113-197)
kpi_document(d) ==
    LET rows == d.rows
        ids == 1..Len(rows)
        varies(r) == Lt(Num(0), r.price_range)
        uniform(r) == Eq(r.price_range, Num(0))
        largest == nlargest(TopN, rows)
        named == {i \in ids : rows[i].cheapest_platform # None}
    IN  [overall_stats |->
            [total_products |-> Len(rows),
             total_skus |-> Cardinality({At(d.columns, rows[i].cells, SkuCol) : i \in ids}),
             min_price |-> nanmin([i \in ids |-> rows[i].min_price]),
             max_price |-> nanmax([i \in ids |-> rows[i].max_price]),
             avg_price |-> nanmean([i \in ids |-> rows[i].avg_price])],
         platform_stats |-> platform_stats(d.columns, rows, platform_cols(d.columns)),
         cheapest_platform_kpi |->
            [name \in {rows[i].cheapest_platform.s : i \in named} |->
                Cardinality({i \in named : rows[i].cheapest_platform.s = name})],
         price_variation_kpi |->
            [products_with_variation |-> Len(SelectSeq(rows, varies)),
             products_uniform_price |-> Len(SelectSeq(rows, uniform)),
             avg_price_range |-> nanmean([i \in ids |-> rows[i].price_range]),
             max_price_range |-> nanmax([i \in ids |-> rows[i].price_range])],
         top_variation_products |->
            [p \in 1..Len(largest) |-> project(d.columns, largest[p])]]

\* a variant that reads only the columns that are there
compute_kpis_lenient(d) == Ok(kpi_document(d))

\* df['Sku'], df['Style Id'], df['Catalog'], df['Category'] raise KeyError when the
\* column is missing
compute_kpis(d) ==
    LET has(c) == c \in Range(d.columns)
    IN  IF ~has(SkuCol) \/ ~has(StyleIdCol) \/ ~has(CatalogCol) \/ ~has(CategoryCol)
        THEN Raise("KeyError")
        ELSE Ok(kpi_document(d))

KpiFile == "kpis.json"

SideFiles == {"category_kpi.csv", "catalog_kpi.csv", "size_kpi.csv"}

\* save_outputs: kpis.json, then the three CSV files
save_outputs(files) == files \cup {KpiFile} \cup SideFiles

----------------------------------------------------------------------------
(* cloud_function/main.py *)

\* an optional query argument: None, or the text given
Arg(s) == [k |-> "str", s |-> s]

\* Python truth of an optional text: None and "" are false
Truthy(a) == a # None /\ a.s # <<>>

\* a variant that answers None when the read fails
load_kpis_quiet(b) == IF b.state = "present" THEN Ok(b.kpis) ELSE Ok(None)

\* load_kpis_from_gcs: None when the blob does not exist; an exception of the
\* storage client or of json.loads is logged and raised again
load_kpis_from_gcs(b) ==
    IF b.state = "unavailable" THEN Raise("GoogleAPIError")
    ELSE IF b.state = "missing" THEN Ok(None)
    ELSE IF b.state = "corrupt" THEN Raise("JSONDecodeError")
    ELSE Ok(b.kpis)

\* Python truth of what load_kpis_from_gcs returned: None and {} are false
not(v) == v = None \/ DOMAIN v = {}

NotFound(what, name) == [k |-> "error", what |-> what, name |-> name]

\* lines 147-152
platform_endpoint(doc, platform) ==
    IF Truthy(platform)
    THEN IF lower(platform.s) \in DOMAIN doc.platform_stats
         THEN [k |-> "entry", value |-> doc.platform_stats[lower(platform.s)]]
         ELSE NotFound("platform", platform.s)
    ELSE [k |-> "platform_stats", value |-> doc.platform_stats]

\* lines 154-162
category_endpoint(doc, category) ==
    LET rows == doc.category_kpi
        hit == {i \in 1..Len(rows) : lower(rows[i].Category) = lower(category.s)}
    IN  IF Truthy(category)
        THEN IF hit # {}
             THEN [k |-> "entry", value |-> rows[CHOOSE i \in hit : \A j \in hit : i <= j]]
             ELSE NotFound("category", category.s)
        ELSE [k |-> "categories", value |-> rows]

\* calculate_kpi_summary
calculate_kpi_summary(doc) ==
    LET rows == doc.category_kpi
        top == CHOOSE i \in 1..Len(rows) :
                  /\ \A j \in 1..Len(rows) : rows[j].product_count <= rows[i].product_count
                  /\ \A j \in 1..(i - 1) : rows[j].product_count < rows[i].product_count
    IN  [k |-> "summary",
         value |-> [platform_comparison |-> doc.platform_stats,
                    top_category |-> IF rows # <<>> THEN rows[top].Category ELSE <<>>]]

\* get_region_analysis
get_region_analysis(doc) ==
    IF doc.catalog_kpi = <<>>
    THEN [k |-> "error", what |-> "region", name |-> <<>>]
    ELSE [k |-> "region", value |-> Len(doc.catalog_kpi)]

\* lines 141-168
route(doc, endpoint, platform, category) ==
    IF endpoint = "summary" THEN calculate_kpi_summary(doc)
    ELSE IF endpoint = "region" THEN get_region_analysis(doc)
    ELSE IF endpoint = "platform" THEN platform_endpoint(doc, platform)
    ELSE IF endpoint = "category" THEN category_endpoint(doc, category)
    ELSE IF endpoint = "all" THEN [k |-> "all", value |-> doc]
    ELSE [k |-> "error", what |-> "endpoint", name |-> <<>>]

Reply(status, body, data) ==
    [raised |-> FALSE, status |-> status, body |-> body, data |-> data]

\* an exception that leaves retail_etl_api
Raised == [raised |-> TRUE, status |-> 0, body |-> "", data |-> None]

\* lines 127-178: the body of the try block
try_body(req, b) ==
    LET endpoint == IF req.endpoint = None THEN "summary" ELSE req.endpoint.s
        loaded == load_kpis_from_gcs(b)
    IN  IF ~loaded.ok THEN Raise(loaded.error)
        ELSE IF not(loaded.value)
        THEN Ok(Reply(404, "KPI data not found", None))
        ELSE Ok(Reply(200, "success",
                      route(loaded.value, endpoint, req.platform, req.category)))

retail_etl_api(req, b) ==
    IF req.method = "OPTIONS" THEN Reply(204, "", None)
    ELSE LET r == try_body(req, b)
         IN  IF r.ok THEN r.value
             ELSE Reply(500, "error", None)

----------------------------------------------------------------------------
(* main(): load_data, clean_transform, compute_kpis, save_outputs *)

NoKpis == None

LoadData ==
    /\ pc = "start"
    /\ LET r == load_data(file_exists, csv)
       IN  IF r.ok
           THEN /\ df' = r.value
                /\ pc' = "loaded"
                /\ error' = error
           ELSE /\ df' = df
                /\ pc' = "failed"
                /\ error' = r.error
    /\ UNCHANGED <<file_exists, csv, df_clean, kpis, written>>
    /\ UNCHANGED api_vars

CleanTransform ==
    /\ pc = "loaded"
    /\ LET r == clean_transform(df)
       IN  IF r.ok
           THEN /\ df_clean' = r.value
                /\ pc' = "transformed"
                /\ error' = error
           ELSE /\ df_clean' = df_clean
                /\ pc' = "failed"
                /\ error' = r.error
    /\ UNCHANGED <<file_exists, csv, df, kpis, written>>
    /\ UNCHANGED api_vars

ComputeKpis ==
    /\ pc = "transformed"
    /\ LET r == compute_kpis(df_clean)
       IN  IF r.ok
           THEN /\ kpis' = r.value
                /\ pc' = "aggregated"
                /\ error' = error
           ELSE /\ kpis' = kpis
                /\ pc' = "failed"
                /\ error' = r.error
    /\ UNCHANGED <<file_exists, csv, df, df_clean, written>>
    /\ UNCHANGED api_vars

SaveOutputs ==
    /\ pc = "aggregated"
    /\ written' = save_outputs(written)
    /\ pc' = "done"
    /\ UNCHANGED <<file_exists, csv, df, df_clean, kpis, error>>
    /\ UNCHANGED api_vars

Next == LoadData \/ CleanTransform \/ ComputeKpis \/ SaveOutputs

----------------------------------------------------------------------------
(* Input files *)

MaxRows == 2

MaxExtra == 1

MaxVaried == 2

MainHeader ==
    <<SkuCol, StyleIdCol, CatalogCol, CategoryCol, WeightCol, TPCol,
      AMRPCol, BMRPCol, MRPOldCol>>

RankHeader ==
    <<SkuCol, StyleIdCol, CatalogCol, CategoryCol, WeightCol, TPCol,
      FinalMRPOldCol, AmFbMRPCol, BMRPCol>>

Without(header, cols) ==
    LET kept(c) == c \notin cols IN SelectSeq(header, kept)

\* one CSV row: SKU code sku, trade price tp, price v1 in column c1 and v2 in column c2
MkRow(header, sku, tp, c1, v1, c2, v2) ==
    [j \in 1..Len(header) |->
        LET c == header[j]
        IN  IF c = SkuCol THEN Str(sku)
            ELSE IF c = TPCol THEN tp
            ELSE IF c = c1 THEN v1
            ELSE IF c = c2 THEN v2
            ELSE IF c \in {MRPOldCol, FinalMRPOldCol} THEN Num(9)
            ELSE Text]

\* <<TP, first price, second price>> of a row
RowKinds ==
    ({Empty, Text, Num(-1), Num(0)} \X {Num(1)} \X {Num(2)})
    \cup ({Num(1)} \X {Empty, Num(-1), Num(1), Num(2)} \X {Empty, Num(1), Num(2)})
    \cup ({Num(1)} \X {Text, NegInf} \X {Empty, PosInf})

MaxOf(s) == IF s = <<>> THEN 0 ELSE CHOOSE m \in Range(s) : \A x \in Range(s) : x <= m

\* SKU codes of n rows up to renaming: row i repeats an earlier code or takes the next
RECURSIVE SkuPatterns(_)
SkuPatterns(n) ==
    IF n = 0 THEN {<<>>}
    ELSE UNION {{Append(s, k) : k \in 1..(MaxOf(s) + 1)} : s \in SkuPatterns(n - 1)}

\* the file of n rows with the given columns, row kinds and SKU codes
File(header, n, kinds, skus) ==
    [columns |-> header,
     rows |-> [i \in 1..n |-> MkRow(header, skus[i], kinds[i][1],
                                    AMRPCol, kinds[i][2], BMRPCol, kinds[i][3])]]

\* f is a file of at most MaxRows rows with every column
IsMainFile(f) ==
    \E n \in 0..MaxRows : \E kinds \in [1..n -> RowKinds] : \E skus \in SkuPatterns(n) :
        f = File(MainHeader, n, kinds, skus)

\* f is a file that lacks one required column, or every platform column
IsBrokenFile(f) ==
    \E gone \in {{c} : c \in RequiredColumns} \cup {{AMRPCol, BMRPCol}} :
        \E n \in 0..1 : \E kinds \in [1..n -> RowKinds] :
            f = File(Without(MainHeader, gone), n, kinds, [i \in 1..n |-> i])

\* the three records of the specification's scenario
ScenarioFile ==
    [columns |-> MainHeader,
     rows |-> <<MkRow(MainHeader, 1, Num(50), AMRPCol, Num(100), BMRPCol, Num(120)),
                MkRow(MainHeader, 2, Num(40), AMRPCol, Empty, BMRPCol, Num(80)),
                MkRow(MainHeader, 3, Num(30), AMRPCol, Empty, BMRPCol, Empty)>>]

RECURSIVE Positions(_, _)
Positions(n, k) ==
    IF k = 0 THEN {{}}
    ELSE Positions(n, k - 1) \cup
         {s \cup {i} : s \in Positions(n, k - 1), i \in 0..(n - 1)}

Window == MaxExtra + MaxVaried + 1

\* TopN .. TopN + MaxExtra rows with distinct SKUs and equal prices, except that at
\* most MaxVaried of the last Window rows have a second price 1 or 2 above the first
IsRankFile(f) ==
    \E n \in TopN..(TopN + MaxExtra) : \E s \in Positions(Window, MaxVaried) :
        \E up \in [s -> {1, 2}] :
            f = [columns |-> RankHeader,
                 rows |-> [i \in 1..n |->
                              MkRow(RankHeader, i, Num(1), AmFbMRPCol, Num(1), BMRPCol,
                                    IF (n - i) \in s THEN Num(1 + up[n - i])
                                    ELSE Num(1))]]

Init ==
    /\ pc = "start"
    /\ \/ /\ file_exists = FALSE
          /\ csv = [columns |-> <<>>, rows |-> <<>>]
       \/ /\ file_exists = TRUE
          /\ \/ IsMainFile(csv)
             \/ IsBrokenFile(csv)
             \/ csv = ScenarioFile
             \/ IsRankFile(csv)
    /\ df = NoFrame
    /\ df_clean = NoFrame
    /\ kpis = NoKpis
    /\ written = {}
    /\ error = "none"
    /\ blob = None
    /\ request = None
    /\ response = None

Spec == Init /\ [][Next]_vars

----------------------------------------------------------------------------
(* Requests to the query function *)

KurtaName == <<"K","u","r","t","a">>

SetName == <<"S","E","T">>

\* documents as the pipeline writes them: platform keys are platform_name() of a
\* column, category rows carry the category text and a count
Documents ==
    {[platform_stats |-> [p \in keys |-> [products_available |-> 1]],
      category_kpi |-> cats,
      catalog_kpi |-> cats,
      timestamp |-> "t"] :
        keys \in SUBSET {platform_name(AMRPCol), platform_name(AmFbMRPCol)},
        cats \in {<<>>,
                  <<[Category |-> KurtaName, product_count |-> 1]>>,
                  <<[Category |-> SetName, product_count |-> 2],
                    [Category |-> KurtaName, product_count |-> 2]>>}}

Blobs ==
    {[state |-> "missing", kpis |-> None],
     [state |-> "unavailable", kpis |-> None],
     [state |-> "corrupt", kpis |-> None]}
    \cup {[state |-> "present", kpis |-> doc] : doc \in Documents}

PlatformArgs ==
    {None, Arg(<<>>), Arg(<<"a">>), Arg(<<"A">>), Arg(<<"A","M","_","f","b">>),
     Arg(<<"a"," ">>), Arg(<<"b">>)}

CategoryArgs ==
    {None, Arg(<<>>), Arg(lower(KurtaName)), Arg(SetName),
     Arg(<<"S","e","t">>), Arg(<<"S","e">>)}

EndpointArgs ==
    {None, Arg("summary"), Arg("region"), Arg("platform"), Arg("category"),
     Arg("all"), Arg("bogus")}

Requests ==
    [method : {"GET", "OPTIONS"}, endpoint : EndpointArgs,
     platform : PlatformArgs, category : CategoryArgs]

HandleRequest ==
    /\ response = None
    /\ response' = retail_etl_api(request, blob)
    /\ UNCHANGED <<blob, request>>
    /\ UNCHANGED etl_vars

NextApi == HandleRequest

InitApi ==
    /\ pc = "start"
    /\ file_exists = FALSE
    /\ csv = [columns |-> <<>>, rows |-> <<>>]
    /\ df = NoFrame
    /\ df_clean = NoFrame
    /\ kpis = NoKpis
    /\ written = {}
    /\ error = "none"
    /\ blob \in Blobs
    /\ request \in Requests
    /\ response = None

SpecApi == InitApi /\ [][NextApi]_vars

----------------------------------------------------------------------------
(* Properties of clean_transform *)

\* clean_transform has returned a frame
Cleaned == df_clean # NoFrame

CleanRows == df_clean.rows

\* the field of column c in line i of the input file, as written in the file
RawCell(i, c) == At(csv.columns, csv.rows[i], c)

IsNumber(x) == x.k \in {"num", "inf"}

IsPositive(x) == (x.k = "num" /\ x.n > 0) \/ x = PosInf

\* the platform-price columns of the input files, by name
PriceColumns == {AMRPCol, BMRPCol, AmFbMRPCol} \cap Range(csv.columns)

CleanCell(r, c) == At(df_clean.columns, r.cells, c)

Kept(i) == \E j \in 1..Len(CleanRows) : CleanRows[j].idx = i - 1

\* C1: every cleaned record has a TP that is a number above 0, and no input line
\* whose TP is unparsable, missing, zero or negative is in the cleaned set.
C1_TpPositive ==
    Cleaned =>
        /\ \A j \in 1..Len(CleanRows) : IsPositive(CleanCell(CleanRows[j], TPCol))
        /\ \A i \in 1..Len(csv.rows) : ~IsPositive(RawCell(i, TPCol)) => ~Kept(i)

C1_Witness ==
    /\ Cleaned
    /\ Len(CleanRows) = 1
    /\ Len(csv.rows) = 2
    /\ RawCell(1, TPCol) = Num(0)
    /\ RawCell(2, TPCol) = Num(1)

\* C2: every cleaned record has a present value in at least one platform-price
\* column, so its minimum price and its cheapest platform are never absent.
C2_HasPlatformPrice ==
    Cleaned =>
        \A j \in 1..Len(CleanRows) :
            /\ \E c \in PriceColumns : IsNumber(CleanCell(CleanRows[j], c))
            /\ IsNumber(CleanRows[j].min_price)
            /\ IsNumber(CleanRows[j].max_price)
            /\ CleanRows[j].cheapest_platform # None

C2_Witness ==
    /\ Cleaned
    /\ Len(csv.rows) = 2
    /\ Len(CleanRows) = 1
    /\ RawCell(1, TPCol) = Num(1)
    /\ RawCell(1, AMRPCol) = Text
    /\ RawCell(1, BMRPCol) = Empty
    /\ RawCell(1, MRPOldCol) = Num(9)
    /\ CleanRows[1].idx = 1

\* an input line that passes the platform-price filter and the TP filter
Eligible(i) ==
    /\ \E c \in PriceColumns : IsNumber(RawCell(i, c))
    /\ IsPositive(RawCell(i, TPCol))

\* C3: no two cleaned records share a SKU; the record kept for a SKU is the first
\* line with that SKU among the lines that passed the price and TP filters; the
\* cleaned records stand in input order.
C3_FirstPerSku ==
    Cleaned =>
        /\ \A j, k \in 1..Len(CleanRows) :
              j < k => /\ CleanCell(CleanRows[j], SkuCol) # CleanCell(CleanRows[k], SkuCol)
                       /\ CleanRows[j].idx < CleanRows[k].idx
        /\ \A i \in 1..Len(csv.rows) :
              Kept(i) <=> /\ Eligible(i)
                          /\ \A h \in 1..(i - 1) :
                                Eligible(h) => RawCell(h, SkuCol) # RawCell(i, SkuCol)

C3_Witness ==
    /\ Cleaned
    /\ Len(csv.rows) = 2
    /\ RawCell(1, SkuCol) = RawCell(2, SkuCol)
    /\ Eligible(1)
    /\ Eligible(2)
    /\ RawCell(1, AMRPCol) # RawCell(2, AMRPCol)
    /\ Len(CleanRows) = 1
    /\ CleanRows[1].idx = 0

\* C4: in every cleaned record min_price <= avg_price <= max_price, price_range is
\* max_price - min_price and is not negative, and cheapest_price is min_price.
C4_PriceMetrics ==
    Cleaned =>
        \A j \in 1..Len(CleanRows) :
            LET r == CleanRows[j]
            IN  /\ Le(r.min_price, r.avg_price)
                /\ Le(r.avg_price, r.max_price)
                /\ Eq(r.price_range, Sub(r.max_price, r.min_price))
                /\ Le(Num(0), r.price_range)
                /\ r.cheapest_price = r.min_price

\* the name the data model gives each platform column
ExpectedName(c) ==
    IF c = AMRPCol THEN <<"a">>
    ELSE IF c = BMRPCol THEN <<"b">>
    ELSE <<"a","m","_","f","b">>

\* C5: cheapest_platform is the normalized name of the first platform column, in
\* column order, whose value is the record's min_price; in the scenario of three
\* records the third is dropped, the first is ("a", 100) and the second ("b", 80).
C5_CheapestPlatform ==
    Cleaned =>
        /\ \A j \in 1..Len(CleanRows) :
              LET r == CleanRows[j]
                  cols == df_clean.columns
                  priced == {p \in 1..Len(cols) :
                                cols[p] \in PriceColumns /\ IsNumber(r.cells[p])}
                  hit == {p \in priced : \A q \in priced : ~Lt(r.cells[q], r.cells[p])}
              IN  /\ hit # {}
                  /\ \A p \in hit :
                        (\A q \in hit : p <= q) =>
                            /\ r.cheapest_platform = Arg(ExpectedName(cols[p]))
                            /\ r.min_price = r.cells[p]
        /\ csv = ScenarioFile =>
              /\ Len(CleanRows) = 2
              /\ CleanRows[1].idx = 0
              /\ CleanRows[1].cheapest_platform = Arg(<<"a">>)
              /\ CleanRows[1].min_price = Num(100)
              /\ CleanRows[2].idx = 1
              /\ CleanRows[2].cheapest_platform = Arg(<<"b">>)
              /\ CleanRows[2].min_price = Num(80)

C5_Witness ==
    /\ Cleaned
    /\ Len(CleanRows) = 1
    /\ CleanCell(CleanRows[1], AMRPCol) = Num(2)
    /\ CleanCell(CleanRows[1], BMRPCol) = Num(2)
    /\ CleanRows[1].cheapest_platform = Arg(<<"a">>)

\* C6: every platform price of a cleaned record is absent or a finite number that
\* is not negative.
C6_PricesNonNegative ==
    Cleaned =>
        \A j \in 1..Len(CleanRows) : \A c \in PriceColumns :
            LET x == CleanCell(CleanRows[j], c)
            IN  isnan(x) \/ (x.k = "num" /\ x.n >= 0)

----------------------------------------------------------------------------
(* Properties of main() and compute_kpis *)

\* the input file is missing, or lacks a required column
InputBroken ==
    \/ ~file_exists
    \/ \E c \in RequiredColumns : c \notin Range(csv.columns)

\* C7: files are written only after loading, cleaning and aggregation succeeded;
\* a run on a missing file or a file without a required column never gets past
\* aggregation and, once failed, has written nothing; a run that succeeds has
\* written the KPI document.
C7_WriteAfterSuccess ==
    /\ written # {} =>
          /\ pc = "done"
          /\ error = "none"
          /\ df # NoFrame
          /\ Cleaned
          /\ kpis # NoKpis
    /\ pc = "failed" => written = {} /\ error # "none"
    /\ pc = "done" => KpiFile \in written
    /\ InputBroken => pc \in {"start", "loaded", "transformed", "failed"} /\ written = {}

C7_Witness ==
    /\ pc = "failed"
    /\ error = "KeyError"
    /\ StyleIdCol \notin Range(csv.columns)
    /\ Cleaned
    /\ Len(CleanRows) = 1
    /\ written = {}

Aggregated == kpis # NoKpis

Top == kpis.top_variation_products

\* the place in the cleaned frame of the record with this SKU
PlaceOf(sku) ==
    CHOOSE j \in 1..Len(CleanRows) : CleanCell(CleanRows[j], SkuCol) = sku

InTop(j) == \E p \in 1..Len(Top) : Top[p].Sku = CleanCell(CleanRows[j], SkuCol)

\* C8: top_variation_products has min(20, n) entries, never lists a record before
\* one of larger price_range, omits no record of larger price_range than a listed
\* one, and lists and keeps records of equal price_range in frame order.
C8_TopVariation ==
    Aggregated =>
        /\ Len(Top) = (IF Len(CleanRows) < 20 THEN Len(CleanRows) ELSE 20)
        /\ \A p \in 1..Len(Top) :
              /\ \E j \in 1..Len(CleanRows) :
                    /\ Top[p].Sku = CleanCell(CleanRows[j], SkuCol)
                    /\ Top[p].price_range = CleanRows[j].price_range
                    /\ Top[p].min_price = CleanRows[j].min_price
                    /\ Top[p].max_price = CleanRows[j].max_price
                    /\ Top[p].cheapest_platform = CleanRows[j].cheapest_platform
        /\ \A p, q \in 1..Len(Top) :
              p < q =>
                 /\ Top[p].Sku # Top[q].Sku
                 /\ ~Lt(Top[p].price_range, Top[q].price_range)
                 /\ Eq(Top[p].price_range, Top[q].price_range)
                       => PlaceOf(Top[p].Sku) < PlaceOf(Top[q].Sku)
        /\ \A j \in 1..Len(CleanRows) : \A p \in 1..Len(Top) :
              ~InTop(j) =>
                 /\ ~Lt(Top[p].price_range, CleanRows[j].price_range)
                 /\ Eq(Top[p].price_range, CleanRows[j].price_range)
                       => PlaceOf(Top[p].Sku) < j

C8_Witness ==
    /\ Aggregated
    /\ Len(CleanRows) = 21
    /\ Len(Top) = 20
    /\ CleanRows[21].price_range = Num(2)
    /\ CleanRows[20].price_range = Num(1)
    /\ Top[1].Sku = Str(21)
    /\ Top[2].Sku = Str(20)
    /\ Top[3].Sku = Str(1)
    /\ ~InTop(19)

\* C10: an empty cleaned table is rejected: no KPI dictionary is computed from
\* it and no KPI document is written.
C10_EmptyInputRejected ==
    (Cleaned /\ Len(CleanRows) = 0) => (kpis = NoKpis /\ KpiFile \notin written)

----------------------------------------------------------------------------
(* Properties of retail_etl_api *)

Responded == response # None

Endpoint == IF request.endpoint = None THEN "summary" ELSE request.endpoint.s

Named(a) == a # None /\ a.s # <<>>

\* the platform key a query text names, ignoring case: <<>> when it names none
PlatformKeyOf(text) ==
    IF text \in {<<"a">>, <<"A">>} THEN <<"a">>
    ELSE IF text = <<"A","M","_","f","b">> THEN <<"a","m","_","f","b">>
    ELSE <<>>

\* the category a query text names, ignoring case: <<>> when it names none
CategoryOf(text) ==
    IF text = <<"k","u","r","t","a">> THEN KurtaName
    ELSE IF text \in {<<"S","E","T">>, <<"S","e","t">>} THEN SetName
    ELSE <<>>

\* C9: a request past the CORS preflight never raises; a missing document gives 404
\* "KPI data not found"; a failure of the storage read gives 500; with a document,
\* a platform or category name that matches no entry (ignoring case) gives the 200
\* reply whose data is the not-found marker, and a name that matches gives the entry.
C9_Outcomes ==
    (Responded /\ request.method # "OPTIONS") =>
        /\ ~response.raised
        /\ blob.state = "missing" =>
              response.status = 404 /\ response.body = "KPI data not found"
        /\ blob.state \in {"unavailable", "corrupt"} =>
              response.status = 500 /\ response.body = "error"
        /\ blob.state = "present" =>
              /\ response.status = 200
              /\ response.body = "success"
              /\ (Endpoint = "platform" /\ Named(request.platform)) =>
                    LET key == PlatformKeyOf(request.platform.s)
                        stats == blob.kpis.platform_stats
                    IN  IF key \in DOMAIN stats
                        THEN response.data = [k |-> "entry", value |-> stats[key]]
                        ELSE response.data = NotFound("platform", request.platform.s)
              /\ (Endpoint = "category" /\ Named(request.category)) =>
                    LET name == CategoryOf(request.category.s)
                        rows == blob.kpis.category_kpi
                    IN  IF \E i \in 1..Len(rows) : rows[i].Category = name
                        THEN /\ response.data.k = "entry"
                             /\ response.data.value.Category = name
                        ELSE response.data = NotFound("category", request.category.s)

C9_Witness ==
    /\ Responded
    /\ request.method = "GET"
    /\ blob.state = "present"
    /\ DOMAIN blob.kpis.platform_stats = {<<"a">>, <<"a","m","_","f","b">>}
    /\ Endpoint = "platform"
    /\ request.platform = Arg(<<"b">>)
    /\ response.status = 200
    /\ response.data = NotFound("platform", <<"b">>)

====
